---- MODULE Spec2Model ----
(* Gapminder dashboard (src/app1.py): the filter / sort / head pipeline of   *)
(* the chart builders and the Dash callbacks that republish each panel's     *)
(* figure when one of its two dropdowns changes.                             *)
EXTENDS Integers, Sequences, FiniteSets, TLC

VARIABLES gapminder_df, value, figure, state

vars == <<gapminder_df, value, figure, state>>

(* ------------------------------------------------------------------------ *)
(* Bounds and program constants                                             *)
(* ------------------------------------------------------------------------ *)

\* number of countries of the generated datasets (more than TopN, so that
\* head(15) really cuts rows off)
NumCountries == 17

\* number of countries of the small table the update cycle is followed on
FewCountries == 3

\* df.head(15)
TopN == 15

\* default= of year_dropdown and of the chart builders
DefaultYear == 1952

DefaultContinent == "Asia"

DefaultVariable == "lifeExp"

\* px.bar is called without title=, px.choropleth with one
NoTitle == <<>>

\* dcc.Graph(id=...) is laid out without a figure
NoFigure == [kind |-> "none", col |-> "", idx |-> <<>>, title |-> NoTitle]

Metrics == {"pop", "gdpPercap", "lifeExp"}

Panels == {"population", "gdp", "life_expectancy", "choropleth_map"}

RankingPanels == {"population", "gdp", "life_expectancy"}

\* Input(...) ids of each callback: <<first input, second input>>
Inputs(p) ==
    CASE p = "population"      -> <<"cont_pop", "year_pop">>
      [] p = "gdp"             -> <<"cont_gdp", "year_gdp">>
      [] p = "life_expectancy" -> <<"cont_life_exp", "year_life_exp">>
      [] p = "choropleth_map"  -> <<"var_map", "year_map">>

Controls == {Inputs(p)[1] : p \in Panels} \cup {Inputs(p)[2] : p \in Panels}

\* y_col each ranking panel passes to create_bar_chart
MetricOf(p) ==
    CASE p = "population"      -> "pop"
      [] p = "gdp"             -> "gdpPercap"
      [] p = "life_expectancy" -> "lifeExp"

(* ------------------------------------------------------------------------ *)
(* The dataset: gapminder() rows, country-major, years ascending            *)
(* ------------------------------------------------------------------------ *)

DataYears == <<1952, 1957>>

\* one row of the table; e is the country of the second continent (0: none),
\* t a country whose three metrics equal those of the next country (0: none)
Row(c, j, e, t) ==
    LET s == IF t # 0 /\ c = t THEN c + 1 ELSE c
    IN  [country   |-> c,
         continent |-> IF c = e THEN "Europe" ELSE "Asia",
         year      |-> DataYears[j],
         pop       |-> ((s * (2 * j - 1)) % 23) + 1,
         gdpPercap |-> ((s * 5 + j) % 23) + 1,
         lifeExp   |-> ((s * 7 + 3 * j) % 23) + 30,
         iso_alpha |-> c]

\* the table with n countries; hole drops the 1957 row of country e
MakeDataset(n, e, t, hole) ==
    LET all  == [i \in 1..(2 * n) |-> Row(((i - 1) \div 2) + 1, ((i - 1) % 2) + 1, e, t)]
        keep(r) == ~(hole /\ r.country = e /\ r.year = DataYears[2])
    IN  SelectSeq(all, keep)

Datasets ==
    {MakeDataset(NumCountries, e, t, hole) :
        e \in {0, NumCountries}, t \in 0..3, hole \in BOOLEAN}

\* continents = gapminder_df["continent"].unique()
continents == {gapminder_df[i].continent : i \in DOMAIN gapminder_df}

\* years = sorted(gapminder_df["year"].unique())
years == {gapminder_df[i].year : i \in DOMAIN gapminder_df}

(* ------------------------------------------------------------------------ *)
(* pandas: a sub-frame is the sequence of its row labels                    *)
(* ------------------------------------------------------------------------ *)

Index == [i \in DOMAIN gapminder_df |-> i]

Min(a, b) == IF a < b THEN a ELSE b

Range(s) == {s[i] : i \in DOMAIN s}

\* gapminder_df[(continent == c) & (year == y)]
FilterContinentYear(c, y) ==
    LET test(i) == gapminder_df[i].continent = c /\ gapminder_df[i].year = y
    IN  SelectSeq(Index, test)

\* the year filter with >= in place of ==
FilterYear_from(y) ==
    LET test(i) == gapminder_df[i].year >= y
    IN  SelectSeq(Index, test)

\* gapminder_df[year == y]
FilterYear(y) ==
    LET test(i) == gapminder_df[i].year = y
    IN  SelectSeq(Index, test)

\* head that stops one row early
head_short(s, n) == SubSeq(s, 1, Min(n - 1, Len(s)))

\* df.head(n)
head(s, n) == SubSeq(s, 1, Min(n, Len(s)))

\* the descending arrangements of the rows S by column col
RECURSIVE SortDescending(_, _)
SortDescending(S, col) ==
    IF S = {} THEN {<<>>}
    ELSE LET top == {i \in S : \A k \in S : gapminder_df[i][col] >= gapminder_df[k][col]}
         IN  UNION {{<<i>> \o rest : rest \in SortDescending(S \ {i}, col)} : i \in top}

\* the sort with ascending left at its default
sort_values_ascending(df, col) ==
    {[k \in 1..Len(s) |-> s[Len(s) + 1 - k]] : s \in SortDescending(Range(df), col)}

\* the sorted frame dropped and the filtered one used as it is
sort_values_unsorted(df, col) == {df}

\* df.sort_values(by=col, ascending=False). The default kind is quicksort,
\* which puts rows of equal value in no particular order: every descending
\* arrangement of the rows is a possible outcome
sort_values(df, col) == SortDescending(Range(df), col)

(* ------------------------------------------------------------------------ *)
(* Chart builders                                                           *)
(* ------------------------------------------------------------------------ *)

\* f"Top 15 ... in {continent} ({year})" and f"{variable} Map ({year})"
FormatTitle(prefix, a, y) == <<prefix, a, y>>

TitlePrefix(p) ==
    CASE p = "population"      -> "Top 15 Populations in"
      [] p = "gdp"             -> "Top 15 GDP per Capita in"
      [] p = "life_expectancy" -> "Top 15 Life Expectancy in"

\* px.bar(df, x="country", y=y_col, ...): one bar per row of df, in df's
\* order; no title= is handed over
px_bar(df, y_col) == [kind |-> "bar", col |-> y_col, idx |-> df, title |-> NoTitle]

\* a builder that returns no chart for a frame without rows
create_bar_chart_nothing(df, y_col, title) ==
    IF df = <<>> THEN {NoFigure}
    ELSE {px_bar(head(sorted, TopN), y_col) : sorted \in sort_values(df, y_col)}

\* a builder that raises on a frame without rows
create_bar_chart_raising(df, y_col, title) ==
    IF df = <<>> THEN {}
    ELSE {px_bar(head(sorted, TopN), y_col) : sorted \in sort_values(df, y_col)}

\* the figures create_bar_chart may return (one per outcome of the sort)
create_bar_chart(df, y_col, title) ==
    {px_bar(head(sorted, TopN), y_col) : sorted \in sort_values(df, y_col)}

create_population_chart(continent, year) ==
    create_bar_chart(FilterContinentYear(continent, year), "pop",
                     FormatTitle(TitlePrefix("population"), continent, year))

create_gdp_chart(continent, year) ==
    create_bar_chart(FilterContinentYear(continent, year), "gdpPercap",
                     FormatTitle(TitlePrefix("gdp"), continent, year))

create_life_exp_chart(continent, year) ==
    create_bar_chart(FilterContinentYear(continent, year), "lifeExp",
                     FormatTitle(TitlePrefix("life_expectancy"), continent, year))

\* the columns of the table
DataColumns == {"country", "continent", "year", "pop", "gdpPercap", "lifeExp", "iso_alpha"}

\* px.choropleth raises ValueError when color= names no column of df
ChoroplethRaises(variable) == variable \notin DataColumns

\* a map cut to the first rows like the rankings
create_choropleth_map_top(variable, year) ==
    [kind  |-> "choropleth", col |-> variable, idx |-> head(FilterYear(year), TopN),
     title |-> FormatTitle(variable, "Map", year)]

create_choropleth_map(variable, year) ==
    [kind  |-> "choropleth", col |-> variable, idx |-> FilterYear(year),
     title |-> FormatTitle(variable, "Map", year)]

(* ------------------------------------------------------------------------ *)
(* Controls                                                                 *)
(* ------------------------------------------------------------------------ *)

\* options= of continent_dropdown, year_dropdown and of the var_map dropdown
Options(c) ==
    CASE c \in {"cont_pop", "cont_gdp", "cont_life_exp"}             -> continents
      [] c \in {"year_pop", "year_gdp", "year_life_exp", "year_map"} -> years
      [] c = "var_map"                                               -> Metrics

\* value= of each dropdown in app.layout
DefaultValue(c) ==
    CASE c \in {"cont_pop", "cont_gdp", "cont_life_exp"}             -> DefaultContinent
      [] c \in {"year_pop", "year_gdp", "year_life_exp", "year_map"} -> DefaultYear
      [] c = "var_map"                                               -> DefaultVariable

PanelOf(c) == CHOOSE p \in Panels : c = Inputs(p)[1] \/ c = Inputs(p)[2]

\* values a forged request may carry that no dropdown offers
ForeignValues(c) ==
    CASE c \in {"cont_pop", "cont_gdp", "cont_life_exp"}             -> {"Mars"}
      [] c \in {"year_pop", "year_gdp", "year_life_exp", "year_map"} -> {1900}
      [] c = "var_map"                                               -> {"bogus", "year"}

(* ------------------------------------------------------------------------ *)
(* State machine                                                            *)
(* ------------------------------------------------------------------------ *)

\* after app.layout is built: dropdowns at their defaults, graphs empty, and
\* the initial call of each of the four callbacks pending
Init ==
    /\ gapminder_df \in Datasets
    /\ value = [c \in Controls |-> DefaultValue(c)]
    /\ figure = [p \in Panels |-> NoFigure]
    /\ state = [p \in Panels |-> "Updating"]

\* a dropdown changes to v: its panel's callback becomes pending; events are
\* taken one at a time, after the cycle of the previous one
Change(c, v) ==
    /\ \A p \in Panels : state[p] = "Idle"
    /\ v # value[c]
    /\ value' = [value EXCEPT ![c] = v]
    /\ state' = [state EXCEPT ![PanelOf(c)] = "Updating"]
    /\ UNCHANGED <<gapminder_df, figure>>

SelectContinent(c) ==
    /\ c \in {"cont_pop", "cont_gdp", "cont_life_exp"}
    /\ \E v \in Options(c) : Change(c, v)

SelectYear(c) ==
    /\ c \in {"year_pop", "year_gdp", "year_life_exp", "year_map"}
    /\ \E v \in Options(c) : Change(c, v)

SelectVariable ==
    \E v \in Options("var_map") : Change("var_map", v)

\* a request carrying a value outside the dropdown's options
ForgedSelect(c) ==
    \E v \in ForeignValues(c) : Change(c, v)

\* a callback whose figure also lands in the GDP graph
Publish_shared(p, fig) ==
    /\ figure' = [figure EXCEPT ![p] = fig, !["gdp"] = fig]
    /\ state' = [state EXCEPT ![p] = "Idle"]
    /\ UNCHANGED <<gapminder_df, value>>

\* Output(p, "figure"): the returned figure replaces the panel's graph
Publish(p, fig) ==
    /\ figure' = [figure EXCEPT ![p] = fig]
    /\ state' = [state EXCEPT ![p] = "Idle"]
    /\ UNCHANGED <<gapminder_df, value>>

\* a callback that hands on the continent only
update_population_chart_default_year ==
    /\ state["population"] = "Updating"
    /\ \E fig \in create_population_chart(value["cont_pop"], DefaultYear) :
           Publish("population", fig)

update_population_chart ==
    /\ state["population"] = "Updating"
    /\ \E fig \in create_population_chart(value["cont_pop"], value["year_pop"]) :
           Publish("population", fig)

update_gdp_chart ==
    /\ state["gdp"] = "Updating"
    /\ \E fig \in create_gdp_chart(value["cont_gdp"], value["year_gdp"]) :
           Publish("gdp", fig)

update_life_exp_chart ==
    /\ state["life_expectancy"] = "Updating"
    /\ \E fig \in create_life_exp_chart(value["cont_life_exp"], value["year_life_exp"]) :
           Publish("life_expectancy", fig)

\* when px.choropleth raises, the callback returns nothing and the graph
\* keeps its figure
update_choropleth_map ==
    /\ state["choropleth_map"] = "Updating"
    /\ IF ChoroplethRaises(value["var_map"])
       THEN Publish("choropleth_map", figure["choropleth_map"])
       ELSE Publish("choropleth_map",
                    create_choropleth_map(value["var_map"], value["year_map"]))

Callbacks ==
    \/ update_population_chart
    \/ update_gdp_chart
    \/ update_life_exp_chart
    \/ update_choropleth_map

Next ==
    \/ \E c \in Controls : SelectContinent(c)
    \/ \E c \in Controls : SelectYear(c)
    \/ SelectVariable
    \/ update_population_chart
    \/ update_gdp_chart
    \/ update_life_exp_chart
    \/ update_choropleth_map

Spec == Init /\ [][Next]_vars

\* a table of few countries: one of Asia in both years and more, one of
\* Europe in 1952 only
InitFew ==
    /\ gapminder_df \in {MakeDataset(FewCountries, FewCountries, t, TRUE) : t \in 0..1}
    /\ value = [c \in Controls |-> DefaultValue(c)]
    /\ figure = [p \in Panels |-> NoFigure]
    /\ state = [p \in Panels |-> "Updating"]

\* every pending callback is eventually run
FairSpec == InitFew /\ [][Next]_vars /\ WF_vars(Callbacks)

\* the callbacks under requests that may carry any value
InitAny ==
    /\ gapminder_df = MakeDataset(NumCountries, NumCountries, 1, TRUE)
    /\ value = [c \in Controls |-> DefaultValue(c)]
    /\ figure = [p \in Panels |-> NoFigure]
    /\ state = [p \in Panels |-> "Updating"]

NextAny ==
    \/ Next
    \/ \E c \in Controls : ForgedSelect(c)

SpecAny == InitAny /\ [][NextAny]_vars

(* ------------------------------------------------------------------------ *)
(* Properties                                                               *)
(* ------------------------------------------------------------------------ *)

\* the current selection of a panel: <<first input's value, second's>>
Criteria(p) == <<value[Inputs(p)[1]], value[Inputs(p)[2]]>>

\* the rows of the table that match a ranking panel's current selection
Matching(p) == FilterContinentYear(Criteria(p)[1], Criteria(p)[2])

\* the value of row i in column col
Cell(i, col) == gapminder_df[i][col]

\* a ranking panel that shows the chart of a finished update
Shown(p) == p \in RankingPanels /\ state[p] = "Idle"

\* C1: the rows a ranking panel shows are at most 15, each of the selected
\* continent and year, in non-increasing order of the panel's metric
C1_RankingRows ==
    \A p \in RankingPanels : Shown(p) =>
        LET f == figure[p] IN
        /\ f.col = MetricOf(p)
        /\ Len(f.idx) <= TopN
        /\ \A k \in DOMAIN f.idx :
              /\ f.idx[k] \in DOMAIN gapminder_df
              /\ gapminder_df[f.idx[k]].continent = Criteria(p)[1]
              /\ gapminder_df[f.idx[k]].year = Criteria(p)[2]
        /\ \A k \in 1..(Len(f.idx) - 1) :
              Cell(f.idx[k], f.col) >= Cell(f.idx[k + 1], f.col)

\* a panel shows 15 rows out of more than 15 matching ones
C1_Witness ==
    \E p \in RankingPanels :
        Shown(p) /\ Len(Matching(p)) > TopN /\ Len(figure[p].idx) = TopN

\* C2: a step that changes one panel's selection or figure leaves the
\* selection and the figure of every other panel as they were
C2_PanelIndependence ==
    [][\A p \in Panels :
          (Criteria(p)' # Criteria(p) \/ figure'[p] # figure[p]) =>
              \A q \in Panels \ {p} :
                  Criteria(q)' = Criteria(q) /\ figure'[q] = figure[q]]_vars

\* the Population panel shows a chart of a changed selection while the GDP
\* panel still has its default selection and the chart of it
C2_Witness ==
    /\ state["population"] = "Idle" /\ state["gdp"] = "Idle"
    /\ Criteria("population") # <<DefaultContinent, DefaultYear>>
    /\ figure["population"] \in
          create_population_chart(Criteria("population")[1], Criteria("population")[2])
    /\ Criteria("gdp") = <<DefaultContinent, DefaultYear>>
    /\ figure["gdp"] \in create_gdp_chart(DefaultContinent, DefaultYear)

\* C3: when no row matches the selection the panel ends its update with a
\* bar chart of zero bars
C3_EmptyChart ==
    \A p \in RankingPanels :
        (Shown(p) /\ Matching(p) = <<>>) =>
            (figure[p].kind = "bar" /\ figure[p].idx = <<>>)

\* a finished update of a selection offered by the dropdowns that no row has
C3_Witness ==
    \E p \in RankingPanels :
        /\ Shown(p) /\ Matching(p) = <<>>
        /\ Criteria(p)[1] \in continents /\ Criteria(p)[2] \in years
        /\ figure[p].kind = "bar"

\* a panel one of whose current values is outside its dropdown's options
Foreign(p) ==
    \E k \in 1..2 : value[Inputs(p)[k]] \notin Options(Inputs(p)[k])

\* C4 as stated: a value outside a dropdown's options is rejected; it never
\* becomes a panel's selection and no figure is published for it
C4_Rejected ==
    [][/\ \A c \in Controls :
              value'[c] # value[c] => value'[c] \in Options(c)
       /\ \A p \in Panels :
              figure'[p] # figure[p] => ~Foreign(p)]_vars

\* C4 amended: the value is taken over as it is and the panel's callback
\* runs on it: a ranking panel publishes a chart of zero bars, the map an
\* empty map for a year no row has and the full slice coloured by the named
\* column for a variable that is a column, and keeps its figure when the
\* variable names no column
C4_ForeignValueHandled ==
    [][\A p \in Panels :
          (state[p] = "Updating" /\ state'[p] = "Idle" /\ Foreign(p)) =>
              /\ value' = value
              /\ IF p \in RankingPanels
                 THEN figure'[p].kind = "bar" /\ figure'[p].idx = <<>>
                 ELSE IF ChoroplethRaises(Criteria(p)[1])
                      THEN figure'[p] = figure[p]
                      ELSE /\ figure'[p].kind = "choropleth"
                           /\ figure'[p].col = Criteria(p)[1]
                           /\ figure'[p].idx = FilterYear(Criteria(p)[2])
                           /\ (Criteria(p)[2] \notin years => figure'[p].idx = <<>>)]_vars

\* a ranking panel has finished an update on a continent no dropdown offers
C4_Witness ==
    \E p \in RankingPanels :
        /\ state[p] = "Idle"
        /\ Criteria(p)[1] \notin continents
        /\ figure[p].kind = "bar" /\ figure[p].idx = <<>>

C6_TitleShown ==
    \A p \in RankingPanels : Shown(p) =>
        figure[p].title = FormatTitle(TitlePrefix(p), Criteria(p)[1], Criteria(p)[2])

\* rows of the selection that tie on the panel's metric
Tied(p, a, b) == a # b /\ Cell(a, MetricOf(p)) = Cell(b, MetricOf(p))

\* C7 as stated: rows that tie are shown in the order the table has them,
\* and of a tie across the cut-off the earlier row of the table is kept
C7_Stable ==
    \A p \in RankingPanels : Shown(p) =>
        LET f == figure[p] IN
        /\ \A j, k \in DOMAIN f.idx :
              (j < k /\ Tied(p, f.idx[j], f.idx[k])) => f.idx[j] < f.idx[k]
        /\ \A r \in Range(Matching(p)) \ Range(f.idx) :
              \A k \in DOMAIN f.idx : Tied(p, f.idx[k], r) => f.idx[k] < r

\* C7 amended: no row is shown twice, a row shown before another has a
\* greater or the same value, and a row left out that ties with a row shown
\* ties with the last row shown; rows that tie come in no fixed order
C7_TiesUnordered ==
    \A p \in RankingPanels : Shown(p) =>
        LET f == figure[p] IN
        /\ \A j, k \in DOMAIN f.idx :
              j < k => /\ f.idx[j] # f.idx[k]
                       /\ \/ Cell(f.idx[j], MetricOf(p)) > Cell(f.idx[k], MetricOf(p))
                          \/ Tied(p, f.idx[j], f.idx[k])
        /\ \A r \in Range(Matching(p)) \ Range(f.idx) :
              \A k \in DOMAIN f.idx :
                  Tied(p, f.idx[k], r) => Tied(p, f.idx[Len(f.idx)], r)

\* a chart shows two rows that tie with the later row of the table first
C7_Witness ==
    \E p \in RankingPanels :
        /\ Shown(p)
        /\ \E j, k \in DOMAIN figure[p].idx :
              j < k /\ Tied(p, figure[p].idx[j], figure[p].idx[k])
                    /\ figure[p].idx[j] > figure[p].idx[k]

\* C8: of n matching rows exactly min(15, n) are shown, and no matching row
\* left out has a greater value than a row shown
C8_TopFifteen ==
    \A p \in RankingPanels : Shown(p) =>
        LET f == figure[p]
            n == Len(Matching(p))
        IN  /\ Len(f.idx) = Min(TopN, n)
            /\ Cardinality(Range(f.idx)) = Len(f.idx)
            /\ Range(f.idx) \subseteq Range(Matching(p))
            /\ \A r \in Range(Matching(p)) \ Range(f.idx) :
                  \A k \in DOMAIN f.idx :
                      Cell(r, MetricOf(p)) <= Cell(f.idx[k], MetricOf(p))

\* one panel leaves matching rows out while another shows all of fewer
\* than 15
C8_Witness ==
    /\ \E p \in RankingPanels :
          Shown(p) /\ Range(Matching(p)) \ Range(figure[p].idx) # {}
    /\ \E p \in RankingPanels :
          Shown(p) /\ Len(Matching(p)) \in 1..(TopN - 1)
                   /\ Len(figure[p].idx) = Len(Matching(p))

\* the countries of the table
Countries == {gapminder_df[i].country : i \in DOMAIN gapminder_df}

\* C9: the map's data are the rows of the selected year, all of them and
\* each once, coloured by the selected variable; a country is on the map
\* exactly when it has a row of that year
C9_MapSlice ==
    state["choropleth_map"] = "Idle" =>
        LET f == figure["choropleth_map"]
            y == value["year_map"]
        IN  /\ f.kind = "choropleth"
            /\ f.col = value["var_map"]
            /\ Range(f.idx) = {i \in DOMAIN gapminder_df : gapminder_df[i].year = y}
            /\ Len(f.idx) = Cardinality(Range(f.idx))
            /\ \A c \in Countries :
                  (\E k \in DOMAIN f.idx : gapminder_df[f.idx[k]].iso_alpha = c)
                      <=> (\E i \in DOMAIN gapminder_df :
                              gapminder_df[i].country = c /\ gapminder_df[i].year = y)

\* the map shows more than 15 countries of a year one country has no row of
C9_Witness ==
    /\ state["choropleth_map"] = "Idle"
    /\ Len(figure["choropleth_map"].idx) > TopN
    /\ \E c \in Countries :
          \A k \in DOMAIN figure["choropleth_map"].idx :
              gapminder_df[figure["choropleth_map"].idx[k]].country # c

\* the figures the builder of panel p may return for the current selection
Computed(p) ==
    CASE p = "population"      -> create_population_chart(Criteria(p)[1], Criteria(p)[2])
      [] p = "gdp"             -> create_gdp_chart(Criteria(p)[1], Criteria(p)[2])
      [] p = "life_expectancy" -> create_life_exp_chart(Criteria(p)[1], Criteria(p)[2])
      [] p = "choropleth_map"  -> {create_choropleth_map(Criteria(p)[1], Criteria(p)[2])}

\* C10: an Idle panel shows a figure built from both of its current values,
\* and a panel that has published nothing yet is at its defaults with its
\* first update due
C10_FigureCurrent ==
    \A p \in Panels :
        /\ state[p] = "Idle" => figure[p] \in Computed(p)
        /\ figure[p] = NoFigure =>
              /\ state[p] = "Updating"
              /\ Criteria(p) = <<DefaultValue(Inputs(p)[1]), DefaultValue(Inputs(p)[2])>>

\* a panel shows the figure of a selection whose two values both differ
\* from the defaults
C10_Witness ==
    \E p \in Panels :
        /\ state[p] = "Idle"
        /\ Criteria(p)[1] # DefaultValue(Inputs(p)[1])
        /\ Criteria(p)[2] # DefaultValue(Inputs(p)[2])
        /\ figure[p] \in Computed(p)

====
